---- MODULE Spec2Model ----
(***************************************************************************)
(* Model of the grounded-citation analysis pipeline of domainAnalyzer:     *)
(*   analyzer.py                       Analyzer (batch run, aggregations)  *)
(*   domainAnalyzer/domain_analyzer.py DomainAnalyzer (per-query tables)   *)
(*   gemini.py                         GeminiGroundedClient (parsing)      *)
(*   api.py                            Flask handlers, background thread   *)
(*                                                                         *)
(* Strings that the code splits on '.' (titles, hosts, domains) are        *)
(* sequences of labels: "news.bbc.co.uk" is <<"news","bbc","co","uk">> and *)
(* the empty string is <<"">> (what ''.split('.') returns).  Percentages   *)
(* are kept in tenths of a percent (50.0 is 500), which is what            *)
(* round(x, 1) can represent.                                              *)
(***************************************************************************)
EXTENDS Integers, Sequences, FiniteSets, TLC

VARIABLES
    analyzer,           \* api.py global `analyzer`: the current Analyzer instance
    analysis_status,    \* Analyzer.analysis_status, per instance
    generated_queries,  \* Analyzer.generated_queries, per instance
    analysis_results,   \* Analyzer.analysis_results, per instance
    pc,                 \* per background thread: position in run_analysis
    self_,              \* per thread: the Analyzer instance run_analysis is bound to
    queries,            \* per thread: local `generated_queries` / `queries`
    results,            \* per thread: local `results` of analyze_queries
    ai_down,            \* per thread: the AI collaborator is unreachable for the whole run
    ai_failed,          \* per thread: indices of the queries whose AI call raised
    resolve_log,        \* per thread: calls made to resolve_actual_url, in order
    outcome,            \* per thread: how run_analysis ended (returned, or what raised)
    response,           \* the last HTTP response / value handed to a caller
    hash_seed,          \* the order in which this process iterates a set of domains
                        \* (its string hashing), <<>> until a set is first iterated
    handler_pc          \* position of the request thread serving
                        \* GET /api/aggregate-results: idle, or past the status check

vars == <<analyzer, analysis_status, generated_queries, analysis_results, pc, self_,
          queries, results, ai_down, ai_failed, resolve_log, outcome, response,
          hash_seed, handler_pc>>

----------------------------------------------------------------------------
(* Bounds *)

MaxThreads == 2
MaxResets == 1
MaxQueries == 2

Threads == 1..MaxThreads
Instances == 1..(MaxResets + 1)

\* Python's None; also what an empty list or dict compares equal to here
None == <<>>
EmptyStr == <<"">>

----------------------------------------------------------------------------
(* Sequence helpers *)

Range(s) == {s[i] : i \in DOMAIN s}

Last3(s) == SubSeq(s, Len(s) - 2, Len(s))
Last2(s) == SubSeq(s, Len(s) - 1, Len(s))

SeqsUpTo(S, n) == UNION {[1..k -> S] : k \in 0..n}

RECURSIVE Sum(_, _)
Sum(f, S) == IF S = {} THEN 0
             ELSE LET x == CHOOSE y \in S : TRUE IN f[x] + Sum(f, S \ {x})

----------------------------------------------------------------------------
(* DomainAnalyzer.normalize_domain *)

COUNTRY_CODES ==
    {"uk", "au", "ca", "in", "np", "nz", "za", "br", "mx", "ar", "cl", "pe", "co",
     "jp", "kr", "cn", "hk", "sg", "my", "th", "id", "ph", "vn", "tw",
     "de", "fr", "it", "es", "nl", "be", "at", "ch", "se", "no", "dk", "fi",
     "pl", "cz", "hu", "sk", "si", "hr", "rs", "bg", "ro", "gr", "cy", "mt",
     "ie", "pt", "lu", "li", "is", "lv", "lt", "ee", "ua", "ru", "by", "md",
     "eg", "il", "tr", "sa", "ae", "qa", "kw", "bh", "om", "jo", "lb", "ir",
     "ke", "ng", "gh", "ma", "tn", "dz", "ly", "sd", "et", "tz", "ug", "rw",
     "bd", "pk", "lk", "mm", "la", "kh", "bn", "mv"}

SECOND_LEVEL_DOMAINS ==
    {"co", "com", "org", "net", "edu", "gov", "mil", "ac", "sch", "uni",
     "info", "biz", "name", "pro", "museum", "travel", "mobi", "tel",
     "jobs", "cat", "asia", "post", "geo", "int"}

\* str.lower() on one label (the upper-case labels the inputs use)
LowerLabel(l) ==
    CASE l = "WWW" -> "www"
      [] l = "CNN" -> "cnn"
      [] l = "COM" -> "com"
      [] OTHER -> l

Lower(d) == [i \in DOMAIN d |-> LowerLabel(d[i])]

\* normalize_domain keeping a leading "www." label
StripWww_Keep(d) == d

\* re.sub(r'^www\.', '', s): drops the first label when it is exactly "www"
\* and a dot follows it
StripWww(d) == IF Len(d) >= 2 /\ d[1] = "www" THEN Tail(d) ELSE d

normalize_domain(domain) ==
    IF domain = EmptyStr \/ domain = None
    THEN EmptyStr
    ELSE LET domain_parts == StripWww(Lower(domain))
             n == Len(domain_parts)
         IN  IF n >= 3
             THEN IF domain_parts[n] \in COUNTRY_CODES
                     /\ domain_parts[n - 1] \in SECOND_LEVEL_DOMAINS
                  THEN Last3(domain_parts)
                  ELSE Last2(domain_parts)
             ELSE domain_parts

----------------------------------------------------------------------------
(* GeminiGroundedClient.parse_grounding_metadata *)

\* GeminiGroundedClient.resolve_actual_url (gemini.py 48-65).  head is what
\* requests.head(redirect_url, allow_redirects=True, timeout=timeout) did: it
\* raised (error names the exception), or it returned the final response of
\* the redirect chain, whose status_code is not looked at.
resolve_actual_url(head) ==
    IF head.raised THEN None ELSE head.url

\* ChunkStep without url_resolution_cache: every chunk is resolved anew
ChunkStep_NoCache(st, chunk_index, chunk, resolve_urls, net) ==
    IF ~chunk.web
    THEN st
    ELSE LET link_info == [title |-> chunk.title,
                           redirect_url |-> chunk.uri,
                           actual_url |-> IF resolve_urls THEN net[chunk.uri] ELSE None]
         IN  [resolved_chunks |->
                  [k \in DOMAIN st.resolved_chunks \cup {chunk_index} |->
                      IF k = chunk_index THEN link_info ELSE st.resolved_chunks[k]],
              url_resolution_cache |-> st.url_resolution_cache,
              calls |-> IF resolve_urls THEN Append(st.calls, chunk.uri) ELSE st.calls]

\* ChunkStep remembering only the resolutions that succeeded: a URL whose
\* resolution failed is resolved again by the next chunk that has it
ChunkStep_RetryFailed(st, chunk_index, chunk, resolve_urls, net) ==
    IF ~chunk.web
    THEN st
    ELSE LET redirect_url == chunk.uri
             hit == /\ redirect_url \in DOMAIN st.url_resolution_cache
                    /\ st.url_resolution_cache[redirect_url] # None
             cache == IF resolve_urls /\ ~hit
                      THEN [u \in DOMAIN st.url_resolution_cache \cup {redirect_url} |->
                               IF u = redirect_url THEN net[u]
                               ELSE st.url_resolution_cache[u]]
                      ELSE st.url_resolution_cache
             link_info == [title |-> chunk.title,
                           redirect_url |-> redirect_url,
                           actual_url |-> IF resolve_urls THEN cache[redirect_url] ELSE None]
         IN  [resolved_chunks |->
                  [k \in DOMAIN st.resolved_chunks \cup {chunk_index} |->
                      IF k = chunk_index THEN link_info ELSE st.resolved_chunks[k]],
              url_resolution_cache |-> cache,
              calls |-> IF resolve_urls /\ ~hit
                        THEN Append(st.calls, redirect_url) ELSE st.calls]

\* One step of the chunk loop (gemini.py 133-147).  st carries resolved_chunks
\* (chunk index -> link_info, as a function on a set of indices),
\* url_resolution_cache (redirect url -> resolution) and the calls made to
\* resolve_actual_url.  net[u] is what the network answers for u in this call.
ChunkStep(st, chunk_index, chunk, resolve_urls, net) ==
    IF ~chunk.web
    THEN st
    ELSE LET redirect_url == chunk.uri
             hit == redirect_url \in DOMAIN st.url_resolution_cache
             cache == IF resolve_urls /\ ~hit
                      THEN [u \in DOMAIN st.url_resolution_cache \cup {redirect_url} |->
                               IF u = redirect_url THEN net[u]
                               ELSE st.url_resolution_cache[u]]
                      ELSE st.url_resolution_cache
             link_info == [title |-> chunk.title,
                           redirect_url |-> redirect_url,
                           actual_url |-> IF resolve_urls THEN cache[redirect_url] ELSE None]
         IN  [resolved_chunks |->
                  [k \in DOMAIN st.resolved_chunks \cup {chunk_index} |->
                      IF k = chunk_index THEN link_info ELSE st.resolved_chunks[k]],
              url_resolution_cache |-> cache,
              calls |-> IF resolve_urls /\ ~hit
                        THEN Append(st.calls, redirect_url) ELSE st.calls]

RECURSIVE ChunkLoop(_, _, _, _)
\* chunks[1..k] processed; chunk indices are 0-based as in enumerate()
ChunkLoop(chunks, k, resolve_urls, net) ==
    IF k = 0
    THEN [resolved_chunks |-> <<>>, url_resolution_cache |-> <<>>, calls |-> <<>>]
    ELSE ChunkStep(ChunkLoop(chunks, k - 1, resolve_urls, net),
                   k - 1, chunks[k], resolve_urls, net)

RECURSIVE SupportLinks_AllOrNothing(_, _, _)
\* a support with one unresolved chunk index loses all of its links
SupportLinks_AllOrNothing(indices, k, resolved_chunks) ==
    IF k = 0 \/ \E j \in 1..k : indices[j] \notin DOMAIN resolved_chunks
    THEN <<>>
    ELSE Append(SupportLinks_AllOrNothing(indices, k - 1, resolved_chunks),
                resolved_chunks[indices[k]])

RECURSIVE SupportLinks_Reversed(_, _, _)
\* the links of a support collected in the reverse order of its indices
SupportLinks_Reversed(indices, k, resolved_chunks) ==
    IF k = 0 THEN <<>>
    ELSE LET rest == SupportLinks_Reversed(indices, k - 1, resolved_chunks)
         IN  IF indices[k] \in DOMAIN resolved_chunks
             THEN <<resolved_chunks[indices[k]]>> \o rest
             ELSE rest

RECURSIVE SupportLinks(_, _, _)
\* links of one support: resolved_chunks[ci] for the indices that are resolved
SupportLinks(indices, k, resolved_chunks) ==
    IF k = 0 THEN <<>>
    ELSE LET rest == SupportLinks(indices, k - 1, resolved_chunks)
         IN  IF indices[k] \in DOMAIN resolved_chunks
             THEN Append(rest, resolved_chunks[indices[k]])
             ELSE rest

\* candidate: [has_metadata, chunks, supports]; returns the segments and the
\* calls made to resolve_actual_url
parse_grounding_metadata(candidate, resolve_urls, net) ==
    IF ~candidate.has_metadata \/ candidate.supports = <<>>
    THEN [segments |-> <<>>, calls |-> <<>>]
    ELSE LET st == ChunkLoop(candidate.chunks, Len(candidate.chunks), resolve_urls, net)
         IN  [segments |->
                  [i \in DOMAIN candidate.supports |->
                      [text |-> candidate.supports[i].text,
                       links |-> SupportLinks(candidate.supports[i].indices,
                                              Len(candidate.supports[i].indices),
                                              st.resolved_chunks),
                       start_index |-> candidate.supports[i].start_index,
                       end_index |-> candidate.supports[i].end_index]],
              calls |-> st.calls]

\* GeminiGroundedClient.process_query, after generate_response has returned
process_query(prompt, candidate, resolve_urls, net) ==
    LET parsed == parse_grounding_metadata(candidate, resolve_urls, net)
    IN  [result |-> [query |-> prompt,
                     grounding_metadata |-> parsed.segments,
                     has_grounding |-> parsed.segments # <<>>],
         calls |-> parsed.calls]

----------------------------------------------------------------------------
(* DomainAnalyzer.extract_domains_from_response and count_domains *)

\* urlparse(actual_url).netloc: a URL is the record of its parts
UrlNetloc(url) == url.netloc

\* extraction from the title alone, without the fallback to actual_url
LinkDomains_TitleOnly(link) ==
    IF link.title # EmptyStr /\ link.title # None
       /\ normalize_domain(link.title) # EmptyStr
    THEN <<normalize_domain(link.title)>>
    ELSE <<>>

\* the domains one link contributes (none or one), domain_analyzer.py 123-140
LinkDomains(link) ==
    LET by_title == IF link.title # EmptyStr /\ link.title # None
                    THEN normalize_domain(link.title) ELSE EmptyStr
    IN  IF by_title # EmptyStr
        THEN <<by_title>>
        ELSE IF link.actual_url # None
             THEN LET normalized == normalize_domain(UrlNetloc(link.actual_url))
                  IN  IF normalized # EmptyStr THEN <<normalized>> ELSE <<>>
             ELSE <<>>

RECURSIVE LinksDomains(_, _)
LinksDomains(links, k) ==
    IF k = 0 THEN <<>> ELSE LinksDomains(links, k - 1) \o LinkDomains(links[k])

RECURSIVE SegmentsDomains(_, _)
SegmentsDomains(segments, k) ==
    IF k = 0 THEN <<>>
    ELSE SegmentsDomains(segments, k - 1)
         \o LinksDomains(segments[k].links, Len(segments[k].links))

extract_domains_from_response(response_data) ==
    IF response_data.grounding_metadata = <<>>
    THEN <<>>
    ELSE SegmentsDomains(response_data.grounding_metadata,
                         Len(response_data.grounding_metadata))

\* A Python dict (insertion ordered) is a sequence of [key, val] entries.
DictHas(d, k) == \E i \in DOMAIN d : d[i].key = k
DictGet(d, k, default) ==
    IF DictHas(d, k) THEN d[CHOOSE i \in DOMAIN d : d[i].key = k].val ELSE default
DictPut(d, k, v) ==
    IF DictHas(d, k)
    THEN [i \in DOMAIN d |-> IF d[i].key = k THEN [key |-> k, val |-> v] ELSE d[i]]
    ELSE Append(d, [key |-> k, val |-> v])

\* the items left in the order they came in
SortedDesc_Unsorted(items, keys) == items

\* sorted(items, key=...) with the keys negated: descending, and stable
\* (equal keys keep their order).  keys[i] is the sort key of items[i].
SortedDesc(items, keys) ==
    LET Rank(i) == 1 + Cardinality({j \in DOMAIN items :
                          keys[j] > keys[i] \/ (keys[j] = keys[i] /\ j < i)})
    IN  [p \in DOMAIN items |-> items[CHOOSE i \in DOMAIN items : Rank(i) = p]]

RECURSIVE CountLoop_FromZero(_, _)
\* the counting loop that enters a domain at 0 and counts its repeats only
CountLoop_FromZero(domains, k) ==
    IF k = 0 THEN <<>>
    ELSE LET d == CountLoop_FromZero(domains, k - 1)
         IN  IF DictHas(d, domains[k])
             THEN DictPut(d, domains[k], DictGet(d, domains[k], 0) + 1)
             ELSE DictPut(d, domains[k], 0)

RECURSIVE CountLoop(_, _)
\* domain_counts after the first k domains (defaultdict(int))
CountLoop(domains, k) ==
    IF k = 0 THEN <<>>
    ELSE LET d == CountLoop(domains, k - 1)
         IN  DictPut(d, domains[k], DictGet(d, domains[k], 0) + 1)

\* the table in the order of first occurrence, not sorted by count
count_domains_Unsorted(domains) ==
    LET domain_counts == CountLoop(domains, Len(domains))
    IN  [i \in DOMAIN domain_counts |->
            [domain |-> domain_counts[i].key, count |-> domain_counts[i].val]]

count_domains(domains) ==
    LET domain_counts == CountLoop(domains, Len(domains))
        sorted_domains == SortedDesc(domain_counts,
                                     [i \in DOMAIN domain_counts |-> domain_counts[i].val])
    IN  [i \in DOMAIN sorted_domains |->
            [domain |-> sorted_domains[i].key, count |-> sorted_domains[i].val]]

----------------------------------------------------------------------------
(* Analyzer aggregations *)

\* round((k / n) * 100, 1) in tenths of a percent; Python rounds the exact
\* ties to even (they are exact in binary for every n the API admits, n <= 50)
RoundPct(k, n) ==
    LET q == (1000 * k) \div n
        r == (1000 * k) % n
    IN  IF 2 * r > n \/ (2 * r = n /\ q % 2 = 1) THEN q + 1 ELSE q

RECURSIVE AppearLinks(_, _, _, _)
\* domain_query_appearances after the first k links of result number idx
AppearLinks(d, links, k, idx) ==
    IF k = 0 THEN d
    ELSE LET d1 == AppearLinks(d, links, k - 1, idx)
             domain == links[k].domain
         IN  IF domain # EmptyStr
             THEN DictPut(d1, domain, DictGet(d1, domain, {}) \cup {idx})
             ELSE d1

RECURSIVE AppearLoop(_, _)
\* domain_query_appearances after the first k results (idx is 0-based)
AppearLoop(rs, k) ==
    IF k = 0 THEN <<>>
    ELSE AppearLinks(AppearLoop(rs, k - 1), rs[k].links, Len(rs[k].links), k - 1)

\* the denominator taken over the answered queries only
TotalQueriesOf_Answered(rs) ==
    Cardinality({i \in DOMAIN rs : rs[i].links # <<>>})

TotalQueriesOf(rs) == Len(rs)

get_percentage_analysis(rs) ==
    IF rs = <<>>
    THEN [numOfQueries |-> 0, domainPercentages |-> <<>>]
    ELSE LET total_queries == TotalQueriesOf(rs)
             appearances == AppearLoop(rs, Len(rs))
             domain_percentages ==
                 [i \in DOMAIN appearances |->
                     [domain |-> appearances[i].key,
                      percentage |-> RoundPct(Cardinality(appearances[i].val), total_queries),
                      query_count |-> Cardinality(appearances[i].val)]]
         IN  [numOfQueries |-> total_queries,
              domainPercentages |->
                  SortedDesc(domain_percentages,
                             [i \in DOMAIN domain_percentages |->
                                 domain_percentages[i].percentage])]

RECURSIVE TotalLinks_CountOnce(_, _, _)
\* the totals adding one per query instead of the query's count
TotalLinks_CountOnce(d, links, k) ==
    IF k = 0 THEN d
    ELSE LET d1 == TotalLinks_CountOnce(d, links, k - 1)
             domain == links[k].domain
         IN  IF domain # EmptyStr
             THEN DictPut(d1, domain, DictGet(d1, domain, 0) + 1)
             ELSE d1

RECURSIVE TotalLinks_Overwrite(_, _, _)
\* the totals keeping the count of the last query that cites the domain
TotalLinks_Overwrite(d, links, k) ==
    IF k = 0 THEN d
    ELSE LET d1 == TotalLinks_Overwrite(d, links, k - 1)
             domain == links[k].domain
         IN  IF domain # EmptyStr
             THEN DictPut(d1, domain, links[k].count)
             ELSE d1

RECURSIVE TotalLinks(_, _, _)
TotalLinks(d, links, k) ==
    IF k = 0 THEN d
    ELSE LET d1 == TotalLinks(d, links, k - 1)
             domain == links[k].domain
         IN  IF domain # EmptyStr
             THEN DictPut(d1, domain, DictGet(d1, domain, 0) + links[k].count)
             ELSE d1

RECURSIVE TotalLoop(_, _)
\* total_domain_counts after the first k results
TotalLoop(rs, k) ==
    IF k = 0 THEN <<>>
    ELSE TotalLinks(TotalLoop(rs, k - 1), rs[k].links, Len(rs[k].links))

aggregateResults(rs) ==
    LET total_domain_counts == TotalLoop(rs, Len(rs))
        sorted_domains == SortedDesc(total_domain_counts,
                              [i \in DOMAIN total_domain_counts |-> total_domain_counts[i].val])
    IN  [numOfQueries |-> Len(rs),
         totalLinkCounts |->
             [i \in DOMAIN sorted_domains |->
                 [domain |-> sorted_domains[i].key, count |-> sorted_domains[i].val]]]

\* str.lower() on a query type
TypeLower(t) ==
    CASE t = "Direct" -> "direct"
      [] t = "Generic" -> "generic"
      [] OTHER -> t

\* next((r for r in analysis_results if r.get('query') == query), None)
FindResult(rs, query) ==
    IF \E i \in DOMAIN rs : rs[i].query = query
    THEN rs[CHOOSE i \in DOMAIN rs :
                rs[i].query = query /\ \A j \in 1..(i - 1) : rs[j].query # query]
    ELSE None

\* domains_in_query of one result
DomainsInQuery(links) ==
    {links[i].domain : i \in {j \in DOMAIN links : links[j].domain # EmptyStr}}

RECURSIVE TypeCount_GenericOnly(_, _, _, _)
\* the tally that counts as generic only the queries typed generic
TypeCount_GenericOnly(d, iter, k, query_type) ==
    IF k = 0 THEN d
    ELSE LET d1 == TypeCount_GenericOnly(d, iter, k - 1, query_type)
             c == DictGet(d1, iter[k], [direct |-> 0, generic |-> 0, total |-> 0])
         IN  DictPut(d1, iter[k],
                     [direct |-> c.direct + (IF query_type = "direct" THEN 1 ELSE 0),
                      generic |-> c.generic + (IF query_type = "generic" THEN 1 ELSE 0),
                      total |-> c.total + 1])

RECURSIVE TypeCount(_, _, _, _)
\* domain_type_counts after the first k domains of this query's set; the set
\* is iterated in the order of the process's hashing, given as iter
TypeCount(d, iter, k, query_type) ==
    IF k = 0 THEN d
    ELSE LET d1 == TypeCount(d, iter, k - 1, query_type)
             c == DictGet(d1, iter[k], [direct |-> 0, generic |-> 0, total |-> 0])
         IN  DictPut(d1, iter[k],
                     IF query_type = "direct"
                     THEN [direct |-> c.direct + 1, generic |-> c.generic,
                           total |-> c.total + 1]
                     ELSE [direct |-> c.direct, generic |-> c.generic + 1,
                           total |-> c.total + 1])

RECURSIVE BreakdownLoop(_, _, _, _)
\* domain_type_counts after the first k generated queries
BreakdownLoop(gq, rs, k, order) ==
    IF k = 0 THEN <<>>
    ELSE LET d == BreakdownLoop(gq, rs, k - 1, order)
             result == FindResult(rs, gq[k].query)
         IN  IF result = None
             THEN d
             ELSE LET in_query == DomainsInQuery(result.links)
                      iter == SelectSeq(order, LAMBDA x : x \in in_query)
                  IN  TypeCount(d, iter, Len(iter), TypeLower(gq[k].type))

get_domain_breakdown_by_type(gq, rs, order) ==
    IF gq = <<>>
    THEN <<>>
    ELSE LET counts == BreakdownLoop(gq, rs, Len(gq), order)
             total_queries == Len(gq)
             domain_breakdown ==
                 [i \in DOMAIN counts |->
                     [domain |-> counts[i].key,
                      direct_count |-> counts[i].val.direct,
                      generic_count |-> counts[i].val.generic,
                      total_count |-> counts[i].val.total,
                      direct_percentage |-> RoundPct(counts[i].val.direct, total_queries),
                      generic_percentage |-> RoundPct(counts[i].val.generic, total_queries),
                      total_percentage |-> RoundPct(counts[i].val.total, total_queries)]]
         IN  SortedDesc(domain_breakdown,
                        [i \in DOMAIN domain_breakdown |->
                            domain_breakdown[i].total_percentage])

----------------------------------------------------------------------------
(* Inputs: what the collaborators (query generator, AI service, network)   *)
(* can hand to the program.                                                *)

DomA == <<"a", "com">>
DomB == <<"b", "com">>

ChunkA == [web |-> TRUE, title |-> DomA, uri |-> "u1"]
ChunkB == [web |-> TRUE, title |-> <<"www", "b", "com">>, uri |-> "u2"]
\* a source without a usable title that shares ChunkA's redirect URL
ChunkC == [web |-> TRUE, title |-> EmptyStr, uri |-> "u1"]

Uris == {"u1", "u2"}

UrlB == [scheme |-> "https", netloc |-> <<"www", "b", "com">>, path |-> "/p"]

\* outcomes of requests.head: an exception, or a response
HeadRaised(error) ==
    [raised |-> TRUE, error |-> error, status_code |-> 0, url |-> None]
HeadResponse(status_code, url) ==
    [raised |-> FALSE, error |-> "none", status_code |-> status_code, url |-> url]

\* what resolve_actual_url returns for each redirect URL during one parse:
\* requests.head fails for all of them, or every redirect ends on UrlB
Nets == {[u \in Uris |-> resolve_actual_url(h)] :
            h \in {HeadRaised("Timeout"), HeadResponse(200, UrlB)}}

Support(indices) ==
    [text |-> "t", start_index |-> 0, end_index |-> 1, indices |-> indices]

Candidate(chunks, cites) ==
    [has_metadata |-> TRUE, chunks |-> chunks, supports |-> <<Support(cites)>>]

\* the candidate of an answer given from the model's own knowledge
Ungrounded == [has_metadata |-> FALSE, chunks |-> <<>>, supports |-> <<>>]

\* chunk indices cited by the one support of an answer (index 3 is out of range)
CiteLists == {<<0>>, <<0, 0, 1>>, <<1, 0>>, <<2>>, <<3, 1>>}

Answers ==
    {Ungrounded}
    \cup {Candidate(<<ChunkA, ChunkB, ChunkC>>, c) : c \in CiteLists \ {<<3, 1>>}}

QueryPool == {[query |-> "q1", type |-> "Direct"],
              [query |-> "q2", type |-> "Generic"],
              [query |-> "q1", type |-> "Generic"]}

QueryLists == SeqsUpTo(QueryPool, MaxQueries)

\* the smaller inputs of the concurrent specification
ApiQueryLists == {<<>>,
                  <<[query |-> "q1", type |-> "Direct"]>>,
                  <<[query |-> "q2", type |-> "Generic"],
                    [query |-> "q1", type |-> "Direct"]>>}
ApiAnswers == {Candidate(<<ChunkA>>, <<0>>)}
ApiNets == {[u \in Uris |-> None]}

\* every domain a result table can hold, and the orders in which a Python
\* set of them can be iterated
DomainUniverse == {DomA, DomB}
IterOrders == {<<DomA, DomB>>, <<DomB, DomA>>}

----------------------------------------------------------------------------
(* State *)

NoResponse == [kind |-> "none", code |-> 0, body |-> None]

Init ==
    /\ analyzer = 1
    /\ analysis_status = [i \in Instances |-> "idle"]
    /\ generated_queries = [i \in Instances |-> <<>>]
    /\ analysis_results = [i \in Instances |-> <<>>]
    /\ pc = [t \in Threads |-> "unborn"]
    /\ self_ = [t \in Threads |-> 0]
    /\ queries = [t \in Threads |-> <<>>]
    /\ results = [t \in Threads |-> <<>>]
    /\ ai_down = [t \in Threads |-> FALSE]
    /\ ai_failed = [t \in Threads |-> {}]
    /\ resolve_log = [t \in Threads |-> <<>>]
    /\ outcome = [t \in Threads |-> "none"]
    /\ response = NoResponse
    /\ hash_seed = <<>>
    /\ handler_pc = "idle"

thread_vars == <<pc, self_, queries, results, ai_down, ai_failed, resolve_log, outcome>>
analyzer_vars == <<analysis_status, generated_queries, analysis_results>>

----------------------------------------------------------------------------
(* api.py: POST /api/start-analysis *)

\* Analyzer.get_status
get_status(a) == analysis_status[a]

\* the guard of api.py 75: a run is refused while the status is analyzing
AlreadyRunning == get_status(analyzer) = "analyzing"

\* 400: no url, empty url, or numOfQueries out of range
StartAnalysisBadRequest ==
    /\ response' = [kind |-> "start", code |-> 400, body |-> None]
    /\ UNCHANGED <<handler_pc, hash_seed, analyzer, analyzer_vars, thread_vars>>

\* 409: an analysis is already running
StartAnalysisRejected ==
    /\ AlreadyRunning
    /\ response' = [kind |-> "start", code |-> 409, body |-> None]
    /\ UNCHANGED <<handler_pc, hash_seed, analyzer, analyzer_vars, thread_vars>>

\* 200: the background thread is created and started; it has not run yet
StartAnalysisStarted ==
    /\ ~AlreadyRunning
    /\ \E t \in Threads :
          /\ pc[t] = "unborn"
          /\ \A u \in Threads : u < t => pc[u] # "unborn"
          /\ pc' = [pc EXCEPT ![t] = "spawned"]
    /\ response' = [kind |-> "start", code |-> 200, body |-> None]
    /\ UNCHANGED <<handler_pc, hash_seed, analyzer, analyzer_vars, self_, queries, results, ai_down,
                   ai_failed, resolve_log, outcome>>

start_analysis ==
    StartAnalysisBadRequest \/ StartAnalysisRejected \/ StartAnalysisStarted

----------------------------------------------------------------------------
(* The background thread: api.py run_analysis wrapper, Analyzer.run_analysis *)

\* api.py 84: the thread reads the global `analyzer` and calls its run_analysis
ThreadBind(t) ==
    /\ pc[t] = "spawned"
    /\ pc' = [pc EXCEPT ![t] = "bound"]
    /\ self_' = [self_ EXCEPT ![t] = analyzer]
    /\ UNCHANGED <<handler_pc, hash_seed, analyzer, analyzer_vars, queries, results, ai_down, ai_failed,
                   resolve_log, outcome, response>>

\* analyzer.py 42; whether the AI service is reachable during this run is the
\* environment's choice
EnterAnalyzing(t) ==
    /\ pc[t] = "bound"
    /\ analysis_status' = [analysis_status EXCEPT ![self_[t]] = "analyzing"]
    /\ \E down \in BOOLEAN : ai_down' = [ai_down EXCEPT ![t] = down]
    /\ pc' = [pc EXCEPT ![t] = "generate"]
    /\ UNCHANGED <<handler_pc, hash_seed, analyzer, generated_queries, analysis_results, self_, queries,
                   results, ai_failed, resolve_log, outcome, response>>

\* queryGenerator.generate_queries_from_url returns: [] when the crawl, the
\* client construction or the AI call failed (each is caught there), else the
\* queries extracted from the AI's reply.  analyzer.py 53-54.
GenerateQueriesReturn(t, lists) ==
    /\ pc[t] = "generate"
    /\ \E qs \in (IF ai_down[t] THEN {<<>>} ELSE lists) :
          /\ generated_queries' = [generated_queries EXCEPT ![self_[t]] = qs]
          /\ queries' = [queries EXCEPT ![t] = qs]
    /\ results' = [results EXCEPT ![t] = <<>>]
    /\ pc' = [pc EXCEPT ![t] = "analyze"]
    /\ UNCHANGED <<handler_pc, hash_seed, analyzer, analysis_status, analysis_results, self_, ai_down,
                   ai_failed, resolve_log, outcome, response>>

\* the except clause without its status assignment
RaiseInRun_KeepStatus(t, cause) ==
    /\ UNCHANGED analysis_status
    /\ outcome' = [outcome EXCEPT ![t] = cause]
    /\ pc' = [pc EXCEPT ![t] = "done"]
    /\ queries' = [queries EXCEPT ![t] = <<>>]
    /\ results' = [results EXCEPT ![t] = <<>>]
    /\ resolve_log' = [resolve_log EXCEPT ![t] = <<>>]

\* analyzer.py 66-69: the except clause of run_analysis
RaiseInRun(t, cause) ==
    /\ analysis_status' = [analysis_status EXCEPT ![self_[t]] = "error"]
    /\ outcome' = [outcome EXCEPT ![t] = cause]
    /\ pc' = [pc EXCEPT ![t] = "done"]
    /\ queries' = [queries EXCEPT ![t] = <<>>]
    /\ results' = [results EXCEPT ![t] = <<>>]
    /\ resolve_log' = [resolve_log EXCEPT ![t] = <<>>]

\* query generation letting the failure of an unreachable AI service escape
GenerateQueriesRaise_Uncaught(t) ==
    /\ pc[t] = "generate"
    /\ RaiseInRun(t, "generate_raised")
    /\ UNCHANGED <<handler_pc, hash_seed, analyzer, generated_queries, analysis_results, self_, ai_down,
                   ai_failed, response>>

\* generate_queries raises: the AI replied, and extract_queries_from_response
\* failed outside its own try block (a reply without text)
GenerateQueriesRaise(t) ==
    /\ pc[t] = "generate"
    /\ ~ai_down[t]
    /\ RaiseInRun(t, "generate_raised")
    /\ UNCHANGED <<handler_pc, hash_seed, analyzer, generated_queries, analysis_results, self_, ai_down,
                   ai_failed, response>>

\* the QueryResult of an answered query, domain_analyzer.py 190-201
QueryResult(query_obj, response_data) ==
    [query |-> query_obj.query,
     query_type |-> query_obj.type,
     links |-> count_domains(extract_domains_from_response(response_data)),
     complete_result |-> response_data]

\* the QueryResult of a query whose processing raised, domain_analyzer.py 205-212
FailedResult(query_obj) ==
    [query |-> query_obj.query,
     query_type |-> query_obj.type,
     links |-> <<>>,
     complete_result |-> None]

\* one iteration of the loop of analyze_queries whose AI call answers
ProcessQueryOk(t, answers, nets) ==
    /\ pc[t] = "analyze"
    /\ Len(results[t]) < Len(queries[t])
    /\ ~ai_down[t]
    /\ LET i == Len(results[t]) + 1
       IN  \E cand \in answers, net \in nets :
              LET r == process_query(queries[t][i].query, cand, TRUE, net)
              IN  /\ results' = [results EXCEPT
                                    ![t] = Append(@, QueryResult(queries[t][i], r.result))]
                  /\ resolve_log' = [resolve_log EXCEPT
                                        ![t] = @ \o [k \in DOMAIN r.calls |->
                                                        [q |-> i, url |-> r.calls[k]]]]
    /\ UNCHANGED <<handler_pc, hash_seed, analyzer, analyzer_vars, pc, self_, queries, ai_down, ai_failed,
                   outcome, response>>

\* the loop without its try/except: the query's exception ends the run
ProcessQueryFail_Reraise(t) ==
    /\ pc[t] = "analyze"
    /\ Len(results[t]) < Len(queries[t])
    /\ ai_failed' = [ai_failed EXCEPT ![t] = @ \cup {Len(results[t]) + 1}]
    /\ RaiseInRun(t, "query_raised")
    /\ UNCHANGED <<handler_pc, hash_seed, analyzer, generated_queries, analysis_results, self_, ai_down,
                   response>>

\* one iteration of the loop whose AI call raises
ProcessQueryFail(t) ==
    /\ pc[t] = "analyze"
    /\ Len(results[t]) < Len(queries[t])
    /\ LET i == Len(results[t]) + 1
       IN  /\ results' = [results EXCEPT ![t] = Append(@, FailedResult(queries[t][i]))]
           /\ ai_failed' = [ai_failed EXCEPT ![t] = @ \cup {i}]
    /\ UNCHANGED <<handler_pc, hash_seed, analyzer, analyzer_vars, pc, self_, queries, ai_down, resolve_log,
                   outcome, response>>

\* analyze_queries giving up at the first failed query
AnalyzeReturn_StopAtFailure(t) ==
    /\ pc[t] = "analyze"
    /\ Len(results[t]) = Len(queries[t]) \/ ai_failed[t] # {}
    /\ analysis_results' = [analysis_results EXCEPT ![self_[t]] = results[t]]
    /\ pc' = [pc EXCEPT ![t] = "save"]
    /\ UNCHANGED <<handler_pc, hash_seed, analyzer, analysis_status, generated_queries, self_, queries,
                   results, ai_down, ai_failed, resolve_log, outcome, response>>

\* analyze_queries returns and analyzer.py 57 stores the list
AnalyzeReturn(t) ==
    /\ pc[t] = "analyze"
    /\ Len(results[t]) = Len(queries[t])
    /\ analysis_results' = [analysis_results EXCEPT ![self_[t]] = results[t]]
    /\ pc' = [pc EXCEPT ![t] = "save"]
    /\ UNCHANGED <<handler_pc, hash_seed, analyzer, analysis_status, generated_queries, self_, queries,
                   results, ai_down, ai_failed, resolve_log, outcome, response>>

\* analyzer.py 60-64: save_analysis wrote the file, the run completes
SaveAndComplete(t) ==
    /\ pc[t] = "save"
    /\ analysis_status' = [analysis_status EXCEPT ![self_[t]] = "complete"]
    /\ outcome' = [outcome EXCEPT ![t] = "returned"]
    /\ pc' = [pc EXCEPT ![t] = "done"]
    /\ queries' = [queries EXCEPT ![t] = <<>>]
    /\ results' = [results EXCEPT ![t] = <<>>]
    /\ resolve_log' = [resolve_log EXCEPT ![t] = <<>>]
    /\ UNCHANGED <<handler_pc, hash_seed, analyzer, generated_queries, analysis_results, self_, ai_down,
                   ai_failed, response>>

\* save_analysis raises (the report file cannot be written)
SaveRaise(t) ==
    /\ pc[t] = "save"
    /\ RaiseInRun(t, "save_raised")
    /\ UNCHANGED <<handler_pc, hash_seed, analyzer, generated_queries, analysis_results, self_, ai_down,
                   ai_failed, response>>

----------------------------------------------------------------------------
(* api.py: the other handlers, and direct calls of the aggregations *)

\* POST /api/reset: a new Analyzer replaces the global one
reset_analysis ==
    /\ analyzer < MaxResets + 1
    /\ analyzer' = analyzer + 1
    /\ response' = [kind |-> "reset", code |-> 200, body |-> None]
    /\ UNCHANGED <<handler_pc, hash_seed, analyzer_vars, thread_vars>>

\* GET /api/status
get_analysis_status ==
    /\ response' = [kind |-> "status", code |-> 200,
                    body |-> [status |-> get_status(analyzer)]]
    /\ UNCHANGED <<handler_pc, hash_seed, analyzer, analyzer_vars, thread_vars>>

\* the orders in which the process can iterate a set of domains: any before
\* the first iteration, the same one ever after (hashing is fixed per process)
SetOrders == IF hash_seed = <<>> THEN IterOrders ELSE {hash_seed}

\* GET /api/aggregate-results served without another thread running between
\* its statements
get_aggregate_results ==
    \/ /\ get_status(analyzer) # "complete"
       /\ response' = [kind |-> "aggregate", code |-> 400, body |-> None]
       /\ UNCHANGED <<handler_pc, hash_seed, analyzer, analyzer_vars, thread_vars>>
    \/ /\ get_status(analyzer) = "complete"
       /\ \E order \in SetOrders :
             /\ hash_seed' = order
             /\ response' =
                    [kind |-> "aggregate", code |-> 200,
                     body |-> [percentage_data |->
                                   get_percentage_analysis(analysis_results[analyzer]),
                               domain_breakdown |->
                                   get_domain_breakdown_by_type(
                                       generated_queries[analyzer],
                                       analysis_results[analyzer], order)]]
       /\ UNCHANGED <<handler_pc, analyzer, analyzer_vars, thread_vars>>

\* GET /api/aggregate-results, api.py 161-162: the request thread reads the
\* status; it answers 400, or goes on to compute the tables
AggregateCheck ==
    /\ handler_pc = "idle"
    /\ \/ /\ get_status(analyzer) # "complete"
          /\ response' = [kind |-> "aggregate", code |-> 400, body |-> None]
          /\ UNCHANGED handler_pc
       \/ /\ get_status(analyzer) = "complete"
          /\ handler_pc' = "checked"
          /\ UNCHANGED response
    /\ UNCHANGED <<hash_seed, analyzer, analyzer_vars, thread_vars>>

\* api.py 164-179: the tables are computed from what the global analyzer holds
\* by now, and the 200 is sent
AggregateCompute ==
    /\ handler_pc = "checked"
    /\ handler_pc' = "idle"
    /\ \E order \in SetOrders :
          /\ hash_seed' = order
          /\ response' =
                 [kind |-> "aggregate", code |-> 200,
                  body |-> [percentage_data |->
                                get_percentage_analysis(analysis_results[analyzer]),
                            domain_breakdown |->
                                get_domain_breakdown_by_type(
                                    generated_queries[analyzer],
                                    analysis_results[analyzer], order)]]
    /\ UNCHANGED <<analyzer, analyzer_vars, thread_vars>>

\* Analyzer.aggregateResults emptying the list it has just aggregated
call_aggregateResults_Draining ==
    /\ \A t \in Threads : pc[t] \in {"unborn", "done"}
    /\ response' = [kind |-> "totals", code |-> 0,
                    body |-> [totals |-> aggregateResults(analysis_results[analyzer])]]
    /\ analysis_results' = [analysis_results EXCEPT ![analyzer] = <<>>]
    /\ UNCHANGED <<handler_pc, hash_seed, analyzer, analysis_status, generated_queries,
                   thread_vars>>

\* Analyzer.aggregateResults called on the current instance by a caller that
\* runs its batches synchronously (none is under way)
call_aggregateResults ==
    /\ \A t \in Threads : pc[t] \in {"unborn", "done"}
    /\ response' = [kind |-> "totals", code |-> 0,
                    body |-> [totals |-> aggregateResults(analysis_results[analyzer])]]
    /\ UNCHANGED <<handler_pc, hash_seed, analyzer, analyzer_vars, thread_vars>>

----------------------------------------------------------------------------
(* Specifications *)

\* the steps of background thread t in the API process
ThreadStep(t) ==
    \/ ThreadBind(t)
    \/ EnterAnalyzing(t)
    \/ GenerateQueriesReturn(t, ApiQueryLists)
    \/ GenerateQueriesRaise(t)
    \/ ProcessQueryFail(t)
    \/ ProcessQueryOk(t, ApiAnswers, ApiNets)
    \/ AnalyzeReturn(t)
    \/ SaveAndComplete(t)
    \/ SaveRaise(t)

\* The API process: requests and background threads interleave freely.
Next ==
    \/ start_analysis
    \/ reset_analysis
    \/ get_analysis_status
    \/ AggregateCheck
    \/ AggregateCompute
    \/ \E t \in Threads : ThreadStep(t)

Spec == Init /\ [][Next]_vars


\* One batch: a single start-analysis request, its run, and the aggregations
\* asked for afterwards, over the wider inputs.
BatchStart ==
    /\ \A t \in Threads : pc[t] = "unborn"
    /\ StartAnalysisStarted

\* the steps of the batch's thread t, over the wider inputs
BatchThreadStep(t) ==
    \/ ThreadBind(t)
    \/ EnterAnalyzing(t)
    \/ GenerateQueriesReturn(t, QueryLists)
    \/ GenerateQueriesRaise(t)
    \/ ProcessQueryFail(t)
    \/ ProcessQueryOk(t, Answers, Nets)
    \/ AnalyzeReturn(t)
    \/ SaveAndComplete(t)
    \/ SaveRaise(t)

BatchNext ==
    \/ BatchStart
    \/ get_aggregate_results
    \/ call_aggregateResults
    \/ \E t \in Threads : BatchThreadStep(t)

BatchSpec == Init /\ [][BatchNext]_vars

\* One batch with its thread scheduled: the started thread
\* (threading.Thread.start, api.py 87-89) keeps being run by the interpreter,
\* and each external call it makes returns or raises.
RunNext ==
    \/ BatchStart
    \/ \E t \in Threads : BatchThreadStep(t)

LiveSpec == Init /\ [][RunNext]_vars /\ \A t \in Threads : WF_vars(BatchThreadStep(t))

----------------------------------------------------------------------------
(* The components called on their own: each call starts from a freshly      *)
(* constructed process, its arguments drawn from the sets below, and leaves  *)
(* what it returned in response.                                             *)

MaxLabels == 4
MaxSupports == 2
MaxSegments == 2

\* labels of the strings handed to normalize_domain ("" is an empty label:
\* a leading, trailing or doubled dot)
Labels == {"", "www", "WWW", "COM", "a", "co", "uk", "com"}

ExampleDomains == {<<"www", "CNN", "com">>, <<"en", "wikipedia", "org">>,
                   <<"news", "bbc", "co", "uk">>, <<"example", "com">>}

\* None (the empty sequence), the empty string and every string of at most
\* MaxLabels labels
NormalizeInputs == SeqsUpTo(Labels, MaxLabels) \cup ExampleDomains

\* a final URL without a host
UrlNoHost == [scheme |-> "https", netloc |-> EmptyStr, path |-> "/p"]

HeadErrors == {"Timeout", "ConnectionError", "TooManyRedirects"}
HeadStatuses == {200, 204, 403, 404, 500, 503}
HeadOutcomes ==
    {HeadRaised(e) : e \in HeadErrors}
    \cup {HeadResponse(c, u) : c \in HeadStatuses, u \in {UrlB, UrlNoHost}}

ResolveInputs == [redirect_url : Uris, head : HeadOutcomes]

\* a chunk that names no web source
ChunkD == [web |-> FALSE, title |-> None, uri |-> "none"]

ChunkLists == {<<>>, <<ChunkA>>, <<ChunkA, ChunkB, ChunkC>>, <<ChunkD, ChunkB>>}

SupportTexts == {"s1", "s2"}
SupportPool ==
    {[Support(c) EXCEPT !.text = x] : x \in SupportTexts, c \in CiteLists \cup {<<>>}}

ParseInputs ==
    [candidate : {Ungrounded}
                 \cup {[has_metadata |-> TRUE, chunks |-> cs, supports |-> ss] :
                          cs \in ChunkLists, ss \in SeqsUpTo(SupportPool, MaxSupports)},
     resolve_urls : BOOLEAN,
     net : Nets]

Link(title, redirect_url, actual_url) ==
    [title |-> title, redirect_url |-> redirect_url, actual_url |-> actual_url]

\* a titled source whose resolution failed, a titled and resolved source,
\* sources whose title is empty, missing or normalizes to nothing, with and
\* without a usable resolved URL
LinkA == Link(DomA, "u1", None)
LinkB == Link(<<"www", "b", "com">>, "u2", UrlB)
LinkUrlOnly == Link(EmptyStr, "u1", UrlB)
LinkWwwDot == Link(<<"www", "">>, "u1", UrlB)
LinkNoTitle == Link(None, "u2", UrlB)
LinkNothing == Link(EmptyStr, "u1", None)
LinkNoHost == Link(EmptyStr, "u2", UrlNoHost)

LinkLists == {<<>>, <<LinkA>>, <<LinkA, LinkA, LinkB>>, <<LinkUrlOnly>>,
              <<LinkWwwDot, LinkNothing>>, <<LinkNoHost, LinkA>>,
              <<LinkB, LinkNoTitle>>}

SegmentPool ==
    {[text |-> "t", links |-> ls, start_index |-> 0, end_index |-> 1] : ls \in LinkLists}

CountInputs ==
    {[query |-> "q1", grounding_metadata |-> segs, has_grounding |-> segs # <<>>] :
        segs \in SeqsUpTo(SegmentPool, MaxSegments)}

\* the QueryResults analyze_queries can produce for query_obj from the answers
AnalyzedAs(query_obj, answers) ==
    {FailedResult(query_obj)}
    \cup {QueryResult(query_obj,
                      process_query(query_obj.query, cand, TRUE,
                                    [u \in Uris |-> None]).result) : cand \in answers}

Orderings(n) == {p \in [1..n -> 1..n] : \A i, j \in 1..n : p[i] = p[j] => i = j}
Permuted(rs, p) == [i \in DOMAIN rs |-> rs[p[i]]]

AggregateQueries == {[query |-> "q1", type |-> "Direct"],
                     [query |-> "q2", type |-> "Generic"]}
AggregateAnswers ==
    {Ungrounded} \cup {Candidate(<<ChunkA, ChunkB, ChunkC>>, c) :
                          c \in {<<0>>, <<0, 0, 1>>, <<1, 0>>}}
AggregateResultPool == UNION {AnalyzedAs(q, AggregateAnswers) : q \in AggregateQueries}

AggregateInputs ==
    UNION {{[analysis_results |-> rs, perm |-> p] : p \in Orderings(Len(rs))} :
              rs \in SeqsUpTo(AggregateResultPool, MaxQueries)}

BreakdownQueries == QueryPool \cup {[query |-> "q3", type |-> "Other"]}
BreakdownAnswers ==
    {Candidate(<<ChunkA, ChunkB, ChunkC>>, c) : c \in {<<0>>, <<1, 0>>}}

BreakdownInputs ==
    UNION {{[generated_queries |-> gq, analysis_results |-> rs, order |-> o] :
               rs \in {r \in [DOMAIN gq -> UNION {AnalyzedAs(q, BreakdownAnswers) :
                                                     q \in Range(gq)}] :
                          \A i \in DOMAIN gq : /\ r[i].query = gq[i].query
                                               /\ r[i].query_type = gq[i].type},
               o \in IterOrders} :
              gq \in SeqsUpTo(BreakdownQueries, MaxQueries)}

\* one query handed to the loop of analyze_queries: the AI call raises, or it
\* answers with a candidate and the network answers net
AnalyzeInputs ==
    {[query_obj |-> [query |-> "q1", type |-> "Direct"], raised |-> TRUE,
      candidate |-> Ungrounded, net |-> [u \in Uris |-> None]]}
    \cup {[query_obj |-> [query |-> "q1", type |-> "Direct"], raised |-> FALSE,
           candidate |-> a.candidate, net |-> a.net] : a \in ParseInputs}

Pending(fn, args) == [kind |-> "pending", code |-> 0, body |-> [fn |-> fn, args |-> args]]
IsPending(fn) == response.kind = "pending" /\ response.body.fn = fn
Returned(fn, body) == [kind |-> fn, code |-> 0, body |-> body]

\* the state after construction (everything of Init but the pending call)
Constructed ==
    /\ analyzer = 1
    /\ analysis_status = [i \in Instances |-> "idle"]
    /\ generated_queries = [i \in Instances |-> <<>>]
    /\ analysis_results = [i \in Instances |-> <<>>]
    /\ pc = [t \in Threads |-> "unborn"]
    /\ self_ = [t \in Threads |-> 0]
    /\ queries = [t \in Threads |-> <<>>]
    /\ results = [t \in Threads |-> <<>>]
    /\ ai_down = [t \in Threads |-> FALSE]
    /\ ai_failed = [t \in Threads |-> {}]
    /\ resolve_log = [t \in Threads |-> <<>>]
    /\ outcome = [t \in Threads |-> "none"]
    /\ hash_seed = <<>>
    /\ handler_pc = "idle"

UnitInit ==
    /\ Constructed
    /\ \/ response \in {Pending("normalize_domain", a) : a \in NormalizeInputs}
       \/ response \in {Pending("resolve_actual_url", a) : a \in ResolveInputs}
       \/ response \in {Pending("parse_grounding_metadata", a) : a \in ParseInputs}
       \/ response \in {Pending("count_domains", a) : a \in CountInputs}
       \/ response \in {Pending("analyze_query", a) : a \in AnalyzeInputs}
       \/ response \in {Pending("aggregate", a) : a \in AggregateInputs}
       \/ response \in {Pending("get_domain_breakdown_by_type", a) : a \in BreakdownInputs}

call_normalize_domain ==
    /\ IsPending("normalize_domain")
    /\ LET domain == response.body.args
       IN  response' = Returned("normalize_domain",
                                [domain |-> domain,
                                 returned |-> normalize_domain(domain),
                                 renormalized |->
                                     normalize_domain(normalize_domain(domain))])
    /\ UNCHANGED <<handler_pc, hash_seed, analyzer, analyzer_vars, thread_vars>>

call_resolve_actual_url ==
    /\ IsPending("resolve_actual_url")
    /\ LET a == response.body.args
       IN  response' = Returned("resolve_actual_url",
                                [redirect_url |-> a.redirect_url, head |-> a.head,
                                 returned |-> resolve_actual_url(a.head)])
    /\ UNCHANGED <<handler_pc, hash_seed, analyzer, analyzer_vars, thread_vars>>

call_parse_grounding_metadata ==
    /\ IsPending("parse_grounding_metadata")
    /\ LET a == response.body.args
           parsed == parse_grounding_metadata(a.candidate, a.resolve_urls, a.net)
       IN  response' = Returned("parse_grounding_metadata",
                                [candidate |-> a.candidate, resolve_urls |-> a.resolve_urls,
                                 net |-> a.net, returned |-> parsed.segments,
                                 calls |-> parsed.calls])
    /\ UNCHANGED <<handler_pc, hash_seed, analyzer, analyzer_vars, thread_vars>>

\* domain_analyzer.py 192-193: the domains of one answer, then their table
call_count_domains ==
    /\ IsPending("count_domains")
    /\ LET response_data == response.body.args
           domains == extract_domains_from_response(response_data)
       IN  response' = Returned("count_domains",
                                [response_data |-> response_data, domains |-> domains,
                                 links |-> count_domains(domains)])
    /\ UNCHANGED <<handler_pc, hash_seed, analyzer, analyzer_vars, thread_vars>>

\* one iteration of the loop of analyze_queries (domain_analyzer.py 183-212)
call_analyze_query ==
    /\ IsPending("analyze_query")
    /\ LET a == response.body.args
       IN  response' =
               Returned("analyze_query",
                        [query_obj |-> a.query_obj, raised |-> a.raised,
                         candidate |-> a.candidate,
                         returned |->
                             IF a.raised
                             THEN FailedResult(a.query_obj)
                             ELSE QueryResult(a.query_obj,
                                              process_query(a.query_obj.query, a.candidate,
                                                            TRUE, a.net).result)])
    /\ UNCHANGED <<handler_pc, hash_seed, analyzer, analyzer_vars, thread_vars>>

\* both aggregation passes over a QueryResult list and over a permutation of it
call_aggregate ==
    /\ IsPending("aggregate")
    /\ LET rs == response.body.args.analysis_results
           permuted == Permuted(rs, response.body.args.perm)
       IN  response' = Returned("aggregate",
                                [analysis_results |-> rs,
                                 permuted_results |-> permuted,
                                 totals |-> aggregateResults(rs),
                                 prevalence |-> get_percentage_analysis(rs),
                                 permuted_totals |-> aggregateResults(permuted),
                                 permuted_prevalence |-> get_percentage_analysis(permuted)])
    /\ UNCHANGED <<handler_pc, hash_seed, analyzer, analyzer_vars, thread_vars>>

call_get_domain_breakdown_by_type ==
    /\ IsPending("get_domain_breakdown_by_type")
    /\ LET a == response.body.args
       IN  response' = Returned("get_domain_breakdown_by_type",
                                [generated_queries |-> a.generated_queries,
                                 analysis_results |-> a.analysis_results,
                                 returned |-> get_domain_breakdown_by_type(
                                                  a.generated_queries,
                                                  a.analysis_results, a.order)])
    /\ UNCHANGED <<handler_pc, hash_seed, analyzer, analyzer_vars, thread_vars>>

UnitNext ==
    \/ call_normalize_domain
    \/ call_resolve_actual_url
    \/ call_parse_grounding_metadata
    \/ call_count_domains
    \/ call_analyze_query
    \/ call_aggregate
    \/ call_get_domain_breakdown_by_type

UnitSpec == UnitInit /\ [][UnitNext]_vars

----------------------------------------------------------------------------
(* Properties *)

\* positions inside run_analysis after line 42 and before it ends
Running == {"generate", "analyze", "save"}
RunsOn(a) == {t \in Threads : pc[t] \in Running /\ self_[t] = a}

\* C1: on one Analyzer instance at most one run_analysis is in progress at
\* any time, whatever the interleaving of start-analysis requests and thread
\* steps.
C1_OneRunPerInstance ==
    \A a \in Instances : Cardinality(RunsOn(a)) <= 1

\* how often redirect URL u was passed to resolve_actual_url in thread t's
\* batch, and how often while parsing query i's answer
ResolveCount(t, u) ==
    Cardinality({k \in DOMAIN resolve_log[t] : resolve_log[t][k].url = u})
ResolveCountIn(t, i, u) ==
    Cardinality({k \in DOMAIN resolve_log[t] :
                    resolve_log[t][k].url = u /\ resolve_log[t][k].q = i})

Statuses == {"idle", "analyzing", "complete", "error"}

\* C3: the status is one of idle, analyzing, complete, error, and it changes
\* only by entering analyzing or by leaving analyzing for complete or error:
\* complete and error are entered from analyzing only, idle is never
\* re-entered.
C3_StatusMachine ==
    [][\A a \in Instances :
          /\ analysis_status'[a] \in Statuses
          /\ analysis_status'[a] # analysis_status[a] =>
                \/ analysis_status'[a] = "analyzing"
                \/ /\ analysis_status[a] = "analyzing"
                   /\ analysis_status'[a] \in {"complete", "error"}]_vars

\* rs holds one QueryResult per query of gq, in the order of gq
OnePerQuery(gq, rs) ==
    /\ Len(rs) = Len(gq)
    /\ \A i \in DOMAIN gq :
          /\ rs[i].query = gq[i].query
          /\ rs[i].query_type = gq[i].type

\* C4: whenever the status is complete, analysis_results holds exactly one
\* QueryResult for each generated query of the same batch, in query order.
C4_CompleteCoversBatch ==
    \A a \in Instances :
        analysis_status[a] = "complete" =>
            OnePerQuery(generated_queries[a], analysis_results[a])

\* what the code treats as fatal to a batch: an exception escaping query
\* generation or the saving of the report
FatalCauses == {"generate_raised", "save_raised"}

\* C5: a per-query failure never moves the batch to error: a run ends in
\* error only for a batch-fatal cause, and a run without one ends complete
\* whichever of its queries failed.
C5_QueryFailureNotFatal ==
    \A t \in Threads :
        pc[t] = "done" =>
            /\ analysis_status[self_[t]] = "error" => outcome[t] \in FatalCauses
            /\ outcome[t] \notin FatalCauses =>
                  /\ outcome[t] = "returned"
                  /\ analysis_status[self_[t]] = "complete"

\* C5 witness: a run all of whose queries failed has ended complete
C5_Witness ==
    \E t \in Threads :
        /\ pc[t] = "done"
        /\ ai_failed[t] = {1, 2}
        /\ analysis_status[self_[t]] = "complete"

\* C6 as stated: a run during which the AI collaborator cannot be reached at
\* all ends with the failure propagated and the status error.
C6_UnreachableAiIsError ==
    \A t \in Threads :
        (pc[t] = "done" /\ ai_down[t]) =>
            /\ outcome[t] # "returned"
            /\ analysis_status[self_[t]] = "error"

\* C6 amended: an exception that escapes query generation or the saving is
\* propagated and the status becomes error; an unreachable AI collaborator is
\* not such a failure: query generation absorbs it and returns no queries, and
\* unless the saving fails the run ends complete with an empty result list.
C6_UnreachableAiAbsorbed ==
    \A t \in Threads :
        pc[t] = "done" =>
            /\ outcome[t] \in FatalCauses => analysis_status[self_[t]] = "error"
            /\ ai_down[t] =>
                  /\ outcome[t] \in {"returned", "save_raised"}
                  /\ generated_queries[self_[t]] = <<>>
                  /\ analysis_results[self_[t]] = <<>>
                  /\ outcome[t] = "returned" => analysis_status[self_[t]] = "complete"

\* C6 witness: a run during which the AI was unreachable has ended complete
C6_Witness ==
    \E t \in Threads :
        /\ pc[t] = "done"
        /\ ai_down[t]
        /\ outcome[t] = "returned"
        /\ analysis_status[self_[t]] = "complete"

\* C7: analyze_queries returns one QueryResult per input query in input
\* order; a query whose AI call failed has links = [] and complete_result =
\* None, and the queries after it are processed all the same.
C7_OneResultPerQuery ==
    \A t \in Threads :
        pc[t] = "save" =>
            /\ OnePerQuery(queries[t], results[t])
            /\ analysis_results[self_[t]] = results[t]
            /\ \A i \in DOMAIN results[t] :
                  IF i \in ai_failed[t]
                  THEN /\ results[t][i].links = <<>>
                       /\ results[t][i].complete_result = None
                  ELSE results[t][i].complete_result # None

\* C7 witness: the first query failed, the second was answered with citations
C7_Witness ==
    \E t \in Threads :
        /\ pc[t] = "save"
        /\ Len(queries[t]) = 2
        /\ ai_failed[t] = {1}
        /\ results[t][1].complete_result = None
        /\ results[t][2].links # <<>>

\* citations of domain d in one query's table, over a batch, and the queries
\* of the batch that cite d at all
LinkCount(links, d) ==
    Sum([j \in DOMAIN links |-> IF links[j].domain = d THEN links[j].count ELSE 0],
        DOMAIN links)
Mentions(rs, d) == Sum([i \in DOMAIN rs |-> LinkCount(rs[i].links, d)], DOMAIN rs)
QueriesCiting(rs, d) ==
    {i \in DOMAIN rs : \E j \in DOMAIN rs[i].links : rs[i].links[j].domain = d}
EntriesOf(table, d) == {i \in DOMAIN table : table[i].domain = d}

\* the batch of the end-to-end scenario: query A cites a.com, a.com, b.com
\* and query B cites b.com
ScenarioBatch(rs) ==
    /\ Len(rs) = 2
    /\ rs[1].links = <<[domain |-> DomA, count |-> 2], [domain |-> DomB, count |-> 1]>>
    /\ rs[2].links = <<[domain |-> DomB, count |-> 1]>>

\* C8: for every batch and domain the total-mentions count is the sum of the
\* domain's per-query counts, and the prevalence query_count is the number of
\* queries whose table contains the domain, once per query; the scenario
\* batch gives totals a.com 2, b.com 2 and prevalence a.com 50.0, b.com 100.0.
C8_MentionsAndPrevalence ==
    \A a \in Instances :
        LET rs == analysis_results[a]
            totals == aggregateResults(rs).totalLinkCounts
            prev == get_percentage_analysis(rs).domainPercentages
        IN  /\ \A d \in DomainUniverse :
                  IF Mentions(rs, d) = 0
                  THEN EntriesOf(totals, d) = {} /\ EntriesOf(prev, d) = {}
                  ELSE /\ Cardinality(EntriesOf(totals, d)) = 1
                       /\ Cardinality(EntriesOf(prev, d)) = 1
                       /\ \A i \in EntriesOf(totals, d) : totals[i].count = Mentions(rs, d)
                       /\ \A i \in EntriesOf(prev, d) :
                             prev[i].query_count = Cardinality(QueriesCiting(rs, d))
            /\ ScenarioBatch(rs) =>
                  /\ Range(totals) = {[domain |-> DomA, count |-> 2],
                                      [domain |-> DomB, count |-> 2]}
                  /\ Range(prev) = {[domain |-> DomA, percentage |-> 500, query_count |-> 1],
                                    [domain |-> DomB, percentage |-> 1000, query_count |-> 2]}

\* C8 witness: aggregateResults has been called on the completed scenario batch
C8_Witness ==
    /\ analysis_status[analyzer] = "complete"
    /\ ScenarioBatch(analysis_results[analyzer])
    /\ response.kind = "totals"
    /\ Len(response.body.totals.totalLinkCounts) = 2

AggregateAnswered == response.kind = "aggregate" /\ response.code = 200

\* C9: in every answer of GET /api/aggregate-results the breakdown lists
\* exactly the domains of the prevalence table, and each domain's total_count
\* and total_percentage equal its prevalence query_count and percentage, also
\* for a batch in which two queries have the same text.
C9_BreakdownAgreesWithPrevalence ==
    AggregateAnswered =>
        LET prev == response.body.percentage_data.domainPercentages
            bd == response.body.domain_breakdown
        IN  /\ {bd[i].domain : i \in DOMAIN bd} = {prev[j].domain : j \in DOMAIN prev}
            /\ \A i \in DOMAIN bd : \A j \in DOMAIN prev :
                  bd[i].domain = prev[j].domain =>
                      /\ bd[i].total_count = prev[j].query_count
                      /\ bd[i].total_percentage = prev[j].percentage

\* p tenths of a percent is 100 * k / n rounded to one decimal (ties to even)
IsRounded(p, k, n) ==
    LET diff == IF p * n >= 1000 * k THEN p * n - 1000 * k ELSE 1000 * k - p * n
    IN  /\ 2 * diff <= n
        /\ 2 * diff = n => p % 2 = 0

\* C10: in the prevalence table query_count <= numOfQueries and percentage =
\* round(100 * query_count / numOfQueries, 1), where numOfQueries counts every
\* QueryResult of the batch, the failed ones (empty links) included.
C10_PercentageOverAllQueries ==
    AggregateAnswered =>
        LET pd == response.body.percentage_data
            rs == analysis_results[analyzer]
        IN  /\ pd.numOfQueries = Len(rs)
            /\ \A i \in DOMAIN pd.domainPercentages :
                  LET e == pd.domainPercentages[i]
                  IN  /\ e.query_count = Cardinality(QueriesCiting(rs, e.domain))
                      /\ e.query_count <= pd.numOfQueries
                      /\ IsRounded(e.percentage, e.query_count, Len(rs))

\* C10 witness: a batch of one failed and one answered query has been
\* aggregated, and the cited domain stands at 50.0
C10_Witness ==
    /\ AggregateAnswered
    /\ Len(analysis_results[analyzer]) = 2
    /\ \E i \in {1, 2} : /\ analysis_results[analyzer][i].complete_result = None
                         /\ analysis_results[analyzer][i].links = <<>>
    /\ \E i \in DOMAIN response.body.percentage_data.domainPercentages :
          response.body.percentage_data.domainPercentages[i].percentage = 500

----------------------------------------------------------------------------
(* Properties of the components called on their own *)

Replied(fn) == response.kind = fn

\* the totalMentions and queryAppearances a pair of tables gives domain d
\* (0 when the table has no entry for d)
TotalMentionsOf(totals, d) ==
    Sum([i \in DOMAIN totals |-> IF totals[i].domain = d THEN totals[i].count ELSE 0],
        DOMAIN totals)
QueryAppearancesOf(prev, d) ==
    Sum([i \in DOMAIN prev |-> IF prev[i].domain = d THEN prev[i].query_count ELSE 0],
        DOMAIN prev)

\* how many citations of the answer recorded in QueryResult r yield domain d
CitedTimes(r, d) ==
    IF r.complete_result = None THEN 0
    ELSE LET doms == extract_domains_from_response(r.complete_result)
         IN  Cardinality({k \in DOMAIN doms : doms[k] = d})

\* C11: for every batch produced by analyze_queries and every domain,
\* totalMentions(domain) >= queryAppearances(domain), with equality when the
\* domain is cited at most once in each query.
C11_MentionsAtLeastAppearances ==
    Replied("aggregate") =>
        LET rs == response.body.analysis_results
            totals == response.body.totals.totalLinkCounts
            prev == response.body.prevalence.domainPercentages
        IN  \A d \in DomainUniverse :
               /\ TotalMentionsOf(totals, d) >= QueryAppearancesOf(prev, d)
               /\ (\A i \in DOMAIN rs : CitedTimes(rs[i], d) <= 1) =>
                     TotalMentionsOf(totals, d) = QueryAppearancesOf(prev, d)

\* C11 witness: a batch aggregated in which a.com, cited twice in one query
\* and once in another, has 3 mentions for 2 appearances, and b.com, cited
\* once, has 1 and 1
C11_Witness ==
    /\ Replied("aggregate")
    /\ TotalMentionsOf(response.body.totals.totalLinkCounts, DomA) = 3
    /\ QueryAppearancesOf(response.body.prevalence.domainPercentages, DomA) = 2
    /\ TotalMentionsOf(response.body.totals.totalLinkCounts, DomB) = 1
    /\ QueryAppearancesOf(response.body.prevalence.domainPercentages, DomB) = 1

\* C12 as stated: aggregating a permutation of a QueryResult list yields
\* totalMentions and prevalence tables identical to those of the list itself.
C12_PermutationIdentical ==
    Replied("aggregate") =>
        /\ response.body.permuted_totals = response.body.totals
        /\ response.body.permuted_prevalence = response.body.prevalence

\* table is ranked: its keys never increase
RankedDesc(table, key(_)) ==
    \A i, j \in DOMAIN table : i < j => key(table[i]) >= key(table[j])

\* C12 amended: aggregating a permutation of a QueryResult list yields the
\* same numOfQueries and tables with the same entries (each domain with the
\* same count, query_count and percentage), both ranked descending; the order
\* of entries of equal rank follows the order of the queries and may differ.
C12_PermutationSameEntries ==
    Replied("aggregate") =>
        LET b == response.body
            CountKey(e) == e.count
            PctKey(e) == e.percentage
        IN  /\ b.permuted_totals.numOfQueries = b.totals.numOfQueries
            /\ b.permuted_prevalence.numOfQueries = b.prevalence.numOfQueries
            /\ Range(b.permuted_totals.totalLinkCounts) = Range(b.totals.totalLinkCounts)
            /\ Len(b.permuted_totals.totalLinkCounts) = Len(b.totals.totalLinkCounts)
            /\ Range(b.permuted_prevalence.domainPercentages)
                  = Range(b.prevalence.domainPercentages)
            /\ Len(b.permuted_prevalence.domainPercentages)
                  = Len(b.prevalence.domainPercentages)
            /\ RankedDesc(b.totals.totalLinkCounts, CountKey)
            /\ RankedDesc(b.permuted_totals.totalLinkCounts, CountKey)
            /\ RankedDesc(b.prevalence.domainPercentages, PctKey)
            /\ RankedDesc(b.permuted_prevalence.domainPercentages, PctKey)

\* C12 witness: two queries aggregated in both orders, where a domain's total
\* adds up the counts of both queries and the two prevalence rankings list
\* the tied domains in different orders
C12_Witness ==
    /\ Replied("aggregate")
    /\ response.body.permuted_results # response.body.analysis_results
    /\ response.body.permuted_prevalence # response.body.prevalence
    /\ \E i \in DOMAIN response.body.totals.totalLinkCounts :
          response.body.totals.totalLinkCounts[i].count = 3

\* the queries of gq of the given class whose looked-up result cites d
TalliedQueries(gq, rs, d, direct) ==
    {k \in DOMAIN gq :
        /\ (TypeLower(gq[k].type) = "direct") = direct
        /\ LET r == FindResult(rs, gq[k].query)
           IN  r # None /\ \E j \in DOMAIN r.links : r.links[j].domain = d}

\* C13: in every domain breakdown direct_count + generic_count = total_count
\* for each domain: each query in which the domain appears is tallied under
\* exactly one of the two classes, Direct when its classification is Direct
\* and Generic for any other classification.
C13_DirectPlusGenericIsTotal ==
    Replied("get_domain_breakdown_by_type") =>
        LET gq == response.body.generated_queries
            rs == response.body.analysis_results
            bd == response.body.returned
        IN  \A i \in DOMAIN bd :
               /\ bd[i].direct_count + bd[i].generic_count = bd[i].total_count
               /\ bd[i].direct_count
                     = Cardinality(TalliedQueries(gq, rs, bd[i].domain, TRUE))
               /\ bd[i].generic_count
                     = Cardinality(TalliedQueries(gq, rs, bd[i].domain, FALSE))

\* C13 witness: a breakdown of a Direct query and a query classified Other,
\* both citing a.com, which stands at 1 direct + 1 generic = 2
C13_Witness ==
    /\ Replied("get_domain_breakdown_by_type")
    /\ Len(response.body.generated_queries) = 2
    /\ \E k \in {1, 2} : response.body.generated_queries[k].type = "Other"
    /\ \E i \in DOMAIN response.body.returned :
          /\ response.body.returned[i].domain = DomA
          /\ response.body.returned[i].direct_count = 1
          /\ response.body.returned[i].generic_count = 1
          /\ response.body.returned[i].total_count = 2

UpperLabels == {"WWW", "CNN", "COM"}

\* s without its first label when that label is "www" and more follow
WithoutWww(s) == IF Len(s) >= 2 /\ s[1] = "www" THEN SubSeq(s, 2, Len(s)) ELSE s

\* C14: normalize_domain lower-cases its input, strips one leading "www."
\* label and then returns the string as it is when it has fewer than 3
\* labels, its last three labels when the last is a listed country code and
\* the one before a listed second-level label, and its last two labels
\* otherwise; www.CNN.com gives cnn.com, en.wikipedia.org wikipedia.org,
\* news.bbc.co.uk bbc.co.uk and example.com example.com.
C14_NormalizeDomain ==
    (Replied("normalize_domain") /\ response.body.domain # None) =>
        LET d == response.body.domain
            r == response.body.returned
            p == WithoutWww(Lower(d))
            n == Len(p)
        IN  /\ \A i \in DOMAIN r : r[i] \notin UpperLabels
            /\ n < 3 => r = p
            /\ (n >= 3 /\ p[n] \in COUNTRY_CODES /\ p[n - 1] \in SECOND_LEVEL_DOMAINS) =>
                  r = <<p[n - 2], p[n - 1], p[n]>>
            /\ (n >= 3 /\ ~(p[n] \in COUNTRY_CODES /\ p[n - 1] \in SECOND_LEVEL_DOMAINS)) =>
                  r = <<p[n - 1], p[n]>>
            /\ d = <<"www", "CNN", "com">> => r = <<"cnn", "com">>
            /\ d = <<"en", "wikipedia", "org">> => r = <<"wikipedia", "org">>
            /\ d = <<"news", "bbc", "co", "uk">> => r = <<"bbc", "co", "uk">>
            /\ d = <<"example", "com">> => r = <<"example", "com">>

\* C14 witness: www.a.co.uk was normalized to a.co.uk
C14_Witness ==
    /\ Replied("normalize_domain")
    /\ response.body.domain = <<"www", "a", "co", "uk">>
    /\ response.body.returned = <<"a", "co", "uk">>

\* a string no domain has: None, or one with an empty label (the empty
\* string, a leading, trailing or doubled dot)
Malformed(d) == d = None \/ \E i \in DOMAIN d : d[i] = ""

\* C15: normalize_domain returns the empty string for every empty or
\* malformed input, such as one with an empty label.
C15_MalformedIsEmpty ==
    (Replied("normalize_domain") /\ Malformed(response.body.domain)) =>
        response.body.returned = EmptyStr

\* the citations of an answer, as (segment, link) positions
Citations(segs) ==
    UNION {{<<i, j>> : j \in DOMAIN segs[i].links} : i \in DOMAIN segs}

\* the domain a citation stands for: its normalized title, else the
\* normalized host of its resolved URL, else none
DomainOfCitation(link) ==
    LET by_title == IF link.title \in {None, EmptyStr} THEN EmptyStr
                    ELSE normalize_domain(link.title)
        by_url == IF link.actual_url = None THEN EmptyStr
                  ELSE normalize_domain(link.actual_url.netloc)
    IN  IF by_title # EmptyStr THEN by_title ELSE by_url

\* C16: each citation yields the normalized title when that is non-empty,
\* else the normalized host of its resolved URL, and nothing when both are
\* empty (a failed resolution leaves the title's domain); every occurrence
\* of a citation counts, so each domain's count is the number of citations
\* yielding it, no entry is the empty string, and the counts of the table sum
\* to the number of citations that yielded a domain.
C16_DomainPerCitation ==
    Replied("count_domains") =>
        LET segs == response.body.response_data.grounding_metadata
            table == response.body.links
            Yielding(d) == {c \in Citations(segs) :
                               DomainOfCitation(segs[c[1]].links[c[2]]) = d}
            yielded == {DomainOfCitation(segs[c[1]].links[c[2]]) : c \in Citations(segs)}
                       \ {EmptyStr}
        IN  /\ {table[i].domain : i \in DOMAIN table} = yielded
            /\ Len(table) = Cardinality(yielded)
            /\ \A i \in DOMAIN table : table[i].count = Cardinality(Yielding(table[i].domain))
            /\ Len(response.body.domains)
                  = Cardinality(Citations(segs)) - Cardinality(Yielding(EmptyStr))
            /\ Sum([i \in DOMAIN table |-> table[i].count], DOMAIN table)
                  = Len(response.body.domains)

\* C16 witness: a.com, whose resolution failed, cited on two segments counts
\* twice, next to a citation that yields nothing
C16_Witness ==
    /\ Replied("count_domains")
    /\ Len(response.body.response_data.grounding_metadata) = 2
    /\ response.body.response_data.grounding_metadata[1].links = <<LinkA>>
    /\ response.body.response_data.grounding_metadata[2].links = <<LinkNoHost, LinkA>>
    /\ response.body.links = <<[domain |-> DomA, count |-> 2]>>

\* the resolution failed: requests.head raised, or the final response of the
\* redirect chain is not a 2xx
ResolutionFailed(head) == head.raised \/ head.status_code \notin 200..299

\* C17: resolve_actual_url returns None on every failure of the resolution
\* (timeout, connection error, non-2xx final response) and the final URL only
\* on success.
C17_NoneOnEveryFailure ==
    Replied("resolve_actual_url") =>
        /\ ResolutionFailed(response.body.head) => response.body.returned = None
        /\ response.body.returned # None => ~ResolutionFailed(response.body.head)

\* C18: parse_grounding_metadata returns an empty segment list whenever the
\* raw answer has no chunks or no supports, also when supports are present
\* and the chunk list is empty.
C18_EmptyWithoutChunksOrSupports ==
    (/\ Replied("parse_grounding_metadata")
     /\ \/ ~response.body.candidate.has_metadata
        \/ response.body.candidate.chunks = <<>>
        \/ response.body.candidate.supports = <<>>) =>
        response.body.returned = <<>>

\* chunk index x names a chunk of the list that has a web source
Resolvable(chunks, x) == x \in 0..(Len(chunks) - 1) /\ chunks[x + 1].web

InRange(chunks, support) ==
    \A k \in DOMAIN support.indices : support.indices[k] \in 0..(Len(chunks) - 1)

Parsed == /\ Replied("parse_grounding_metadata")
          /\ response.body.candidate.has_metadata
          /\ response.body.candidate.supports # <<>>

\* C19 as stated: a support referencing a chunk index outside the chunk list
\* produces no Segment: the output holds the Segments of the other supports.
C19_BadSupportDropped ==
    Parsed =>
        LET c == response.body.candidate
        IN  Len(response.body.returned)
               = Cardinality({i \in DOMAIN c.supports : InRange(c.chunks, c.supports[i])})

\* C19 amended: only the reference is dropped: a chunk index outside the
\* chunk list (or naming a chunk without a web source) adds no citation, the
\* support still produces its Segment with the citations of its other
\* indices (possibly none), and every other support is parsed all the same.
C19_BadIndexDropped ==
    Parsed =>
        LET c == response.body.candidate
            segs == response.body.returned
        IN  /\ Len(segs) = Len(c.supports)
            /\ \A i \in DOMAIN c.supports :
                  /\ segs[i].text = c.supports[i].text
                  /\ Len(segs[i].links)
                        = Cardinality({k \in DOMAIN c.supports[i].indices :
                                          Resolvable(c.chunks, c.supports[i].indices[k])})

\* C19 witness: the first support cites chunk 3 of a list of three chunks
\* (indices 0..2) and chunk 1; it is parsed into a Segment with one citation,
\* and so is the second support
C19_Witness ==
    /\ Parsed
    /\ Len(response.body.candidate.chunks) = 3
    /\ Len(response.body.candidate.supports) = 2
    /\ response.body.candidate.supports[1].indices = <<3, 1>>
    /\ response.body.candidate.supports[2].indices = <<0>>
    /\ Len(response.body.returned) = 2
    /\ Len(response.body.returned[1].links) = 1
    /\ Len(response.body.returned[2].links) = 1

\* the citation of chunk index x
CitationOf(chunks, x, resolve_urls, net) ==
    [title |-> chunks[x + 1].title,
     redirect_url |-> chunks[x + 1].uri,
     actual_url |-> IF resolve_urls THEN net[chunks[x + 1].uri] ELSE None]

\* C20: the Segments appear in the order of the supports, each with its
\* support's text and offsets, and its citations are the resolved citations
\* of the support's chunk indices in the order given, repeated indices kept.
C20_CitationsInIndexOrder ==
    Parsed =>
        LET c == response.body.candidate
            segs == response.body.returned
        IN  /\ DOMAIN segs = DOMAIN c.supports
            /\ \A i \in DOMAIN c.supports :
                  LET cited == SelectSeq(c.supports[i].indices,
                                         LAMBDA x : Resolvable(c.chunks, x))
                  IN  /\ segs[i].text = c.supports[i].text
                      /\ segs[i].start_index = c.supports[i].start_index
                      /\ segs[i].end_index = c.supports[i].end_index
                      /\ segs[i].links =
                            [k \in DOMAIN cited |->
                                CitationOf(c.chunks, cited[k], response.body.resolve_urls,
                                           response.body.net)]

\* C20 witness: supports s2 then s1, the first citing chunks 0, 0, 1 and the
\* second chunks 1, 0, parsed with resolution into Segments in that order
C20_Witness ==
    /\ Parsed
    /\ response.body.resolve_urls
    /\ Len(response.body.returned) = 2
    /\ response.body.returned[1].text = "s2"
    /\ response.body.returned[2].text = "s1"
    /\ Len(response.body.returned[1].links) = 3
    /\ response.body.returned[1].links[1] = response.body.returned[1].links[2]
    /\ response.body.returned[1].links[3].title = <<"www", "b", "com">>
    /\ Len(response.body.returned[2].links) = 2
    /\ response.body.returned[2].links[1].title = <<"www", "b", "com">>
    /\ response.body.returned[2].links[2].actual_url = UrlB

\* C21: within one parse_grounding_metadata call with URL resolution enabled
\* resolve_actual_url is invoked at most once per distinct redirect URL (once
\* for each URL of a web chunk), however many chunks share the URL and
\* supports cite them, also when the first resolution failed; without
\* resolution it is not invoked.
C21_OneResolutionPerUrl ==
    Replied("parse_grounding_metadata") =>
        LET c == response.body.candidate
            calls == response.body.calls
        IN  IF response.body.resolve_urls /\ c.has_metadata /\ c.supports # <<>>
            THEN /\ \A i, j \in DOMAIN calls : calls[i] = calls[j] => i = j
                 /\ Range(calls) = {c.chunks[k].uri :
                                       k \in {x \in DOMAIN c.chunks : c.chunks[x].web}}
            ELSE calls = <<>>

\* C21 witness: chunks 0 and 2 share the redirect URL u1, every resolution
\* failed, two supports cite the three chunks, and u1 was resolved once
C21_Witness ==
    /\ Parsed
    /\ response.body.resolve_urls
    /\ Len(response.body.candidate.chunks) = 3
    /\ response.body.net["u1"] = None
    /\ response.body.calls = <<"u1", "u2">>
    /\ Len(response.body.returned) = 2
    /\ response.body.candidate.supports[1].indices = <<0, 0, 1>>
    /\ response.body.candidate.supports[2].indices = <<2>>

\* position of the first occurrence of d in the list of domains
FirstAt(domains, d) ==
    CHOOSE k \in DOMAIN domains :
        domains[k] = d /\ \A j \in 1..(k - 1) : domains[j] # d

\* C22: count_domains returns the table sorted descending by count, and
\* domains with equal counts in the order of their first occurrence in the
\* query's citation list.
C22_SortedStable ==
    Replied("count_domains") =>
        LET table == response.body.links
            domains == response.body.domains
        IN  \A i, j \in DOMAIN table :
               i < j =>
                  \/ table[i].count > table[j].count
                  \/ /\ table[i].count = table[j].count
                     /\ FirstAt(domains, table[i].domain) < FirstAt(domains, table[j].domain)

\* C22 witness: b.com cited before a.com, once each: b.com is listed first
C22_Witness ==
    /\ Replied("count_domains")
    /\ response.body.domains = <<DomB, DomA>>
    /\ response.body.links = <<[domain |-> DomB, count |-> 1],
                               [domain |-> DomA, count |-> 1]>>

\* C23: every aggregate table is ranked descending by its key:
\* totalLinkCounts by count, domainPercentages by percentage and the domain
\* breakdown by total_percentage.
C23_TablesRanked ==
    LET CountKey(e) == e.count
        PctKey(e) == e.percentage
        TotalPctKey(e) == e.total_percentage
    IN  /\ Replied("aggregate") =>
              /\ RankedDesc(response.body.totals.totalLinkCounts, CountKey)
              /\ RankedDesc(response.body.prevalence.domainPercentages, PctKey)
        /\ Replied("get_domain_breakdown_by_type") =>
              RankedDesc(response.body.returned, TotalPctKey)

\* C23 witness: the first query cites b.com then a.com, the second a.com
\* twice and b.com; the totals list a.com 3 before b.com 2
C23_Witness ==
    /\ Replied("aggregate")
    /\ Len(response.body.analysis_results) = 2
    /\ response.body.analysis_results[1].links =
          <<[domain |-> DomB, count |-> 1], [domain |-> DomA, count |-> 1]>>
    /\ response.body.totals.totalLinkCounts =
          <<[domain |-> DomA, count |-> 3], [domain |-> DomB, count |-> 2]>>

\* C24: a query answered without grounding (no chunks, or no supports) yields
\* links = [] and a complete_result whose has_grounding is false; a failed
\* query yields links = [] and complete_result = None; has_grounding is true
\* exactly when the parsed segment list is non-empty.
C24_UngroundedIsFlagged ==
    Replied("analyze_query") =>
        LET r == response.body.returned
            c == response.body.candidate
        IN  IF response.body.raised
            THEN r.links = <<>> /\ r.complete_result = None
            ELSE /\ r.complete_result # None
                 /\ r.complete_result.has_grounding
                       = (r.complete_result.grounding_metadata # <<>>)
                 /\ (~c.has_metadata \/ c.chunks = <<>> \/ c.supports = <<>>) =>
                       /\ r.links = <<>>
                       /\ ~r.complete_result.has_grounding

\* C29: normalize_domain is idempotent: normalizing its result returns the
\* result.
C29_NormalizeIdempotent ==
    Replied("normalize_domain") => response.body.renormalized = response.body.returned

----------------------------------------------------------------------------
(* Properties of the API process across batches *)

\* C25: QueryResults are append-only during a batch run and are discarded
\* when a new batch starts: from the step in which a run enters analyzing the
\* Analyzer holds none of the previous batch's QueryResults, and while
\* analyze_queries runs its result list only grows at the end.
C25_ResultsReplacedAtStart ==
    [][/\ \A a \in Instances :
             (analysis_status[a] # "analyzing" /\ analysis_status'[a] = "analyzing")
                => analysis_results'[a] = <<>>
       /\ \A t \in Threads :
             (pc[t] = "analyze" /\ pc'[t] = "analyze")
                => /\ Len(results'[t]) >= Len(results[t])
                   /\ SubSeq(results'[t], 1, Len(results[t])) = results[t]]_vars

\* C26: the aggregations are derived and mutate nothing: a call of
\* aggregateResults, get_percentage_analysis or get_domain_breakdown_by_type
\* leaves analysis_results, generated_queries and the status as they were, its
\* tables are those of the QueryResult list the Analyzer holds, and a call
\* repeated on the same list returns the same tables as the call before it.
C26_AggregatesDerived ==
    [][(response'.kind \in {"aggregate", "totals"}
          /\ <<response, hash_seed>> # <<response', hash_seed'>>)
       => /\ analyzer' = analyzer
          /\ analysis_status' = analysis_status
          /\ generated_queries' = generated_queries
          /\ analysis_results' = analysis_results
          /\ (response'.kind = "totals") =>
                response'.body.totals.totalLinkCounts
                    = aggregateResults(analysis_results'[analyzer']).totalLinkCounts
          /\ (response'.kind = "aggregate" /\ response'.code = 200) =>
                /\ analysis_status'[analyzer'] = "complete"
                /\ response'.body.percentage_data.numOfQueries
                       = Len(analysis_results'[analyzer'])
          /\ (response.kind = response'.kind /\ response.code = response'.code) =>
                response' = response]_vars

\* C26 witness: the completed batch was aggregated by the request handler
\* (which fixed the iteration order) and then again by aggregateResults
C26_Witness ==
    /\ hash_seed # <<>>
    /\ response.kind = "totals"
    /\ analysis_status[analyzer] = "complete"
    /\ Len(analysis_results[analyzer]) = 2
    /\ Len(response.body.totals.totalLinkCounts) = 2

\* C27: every run that enters analyzing eventually leaves it for complete or
\* error, given that each external call returns or raises, and the status is
\* analyzing only while a run_analysis on that Analyzer is under way.
C27_AnalyzingEnds ==
    /\ \A a \in Instances :
          (analysis_status[a] = "analyzing") ~>
              (analysis_status[a] \in {"complete", "error"})
    /\ [](\A a \in Instances :
             analysis_status[a] = "analyzing" =>
                \E t \in Threads : self_[t] = a /\ pc[t] \in Running)

\* C27 witness: a run that entered analyzing has ended in the except clause
\* and left the status at error
C27_Witness ==
    \E t \in Threads :
        /\ pc[t] = "done"
        /\ outcome[t] = "save_raised"
        /\ analysis_status[self_[t]] = "error"

\* C28: GET /api/aggregate-results answers 200 with tables only while the
\* status is complete and 400 without data otherwise; no 200 carries tables
\* computed while a run is modifying generated_queries or analysis_results of
\* the Analyzer they are read from.
C28_TablesOnlyWhenComplete ==
    [][(response' # response /\ response'.kind = "aggregate")
       => IF response'.code = 200
          THEN /\ analysis_status[analyzer] = "complete"
               /\ RunsOn(analyzer) = {}
          ELSE /\ response'.code = 400
               /\ response'.body = None
               /\ analysis_status[analyzer] # "complete"]_vars

\* C30: at most one background run is executing in the API process at any
\* time, whatever the interleaving of start-analysis requests, reset requests
\* and thread steps.
C30_OneRunPerProcess ==
    Cardinality({t \in Threads : pc[t] \in Running}) <= 1

====
